---- MODULE Spec2Model ----
(***************************************************************************)
(* Model of src/src/oemof_energysystem_dummy.py: a top-level script that   *)
(* loads a CSV, builds an oemof energy system gated by the two flags       *)
(* STORAGE and PV, solves it, extracts metrics and reports them.           *)
(*                                                                         *)
(* The script is one sequential process; pc is its position.  The external *)
(* collaborators (file system, graph renderer, solver, plotting backend)   *)
(* either succeed or raise; what the solver returns is a nondeterministic  *)
(* choice over small sets.  Python names are modelled by env (a name is    *)
(* bound once its assignment ran), pandas objects by heap (two names bound *)
(* to the same object share one heap cell).                                *)
(***************************************************************************)
EXTENDS Integers, Sequences, FiniteSets, TLC

\* ---------------------------------------------------------------- bounds
\* largest sum of the demand_el column of the CSV
MaxDemand == 2
\* largest sum of the genset->electricity flow the solver may return
MaxFlow == 2
\* largest investment the solver may return
MaxInvest == 1

\* ------------------------------------------------------ program constants
\* nominal_value of the demand flow (line 95)
nominal_value == 85
\* 1e6, the divisor of the storage investment (line 131)
storage_scale == 1000000
\* 1e3, the divisor of the pv investment (line 136)
pv_scale == 1000

VARIABLES
    STORAGE,            \* the storage flag (line 32)
    PV,                 \* the pv flag (line 33)
    pc,                 \* position of the script
    err,                \* the uncaught exception that ended the run, or "none"
    data,               \* the table read from input_data.csv, or None
    env,                \* Python node names bound so far: name -> node label
    energysystem,       \* labels passed to energysystem.add, in call order
    optimization_model, \* the model: the nodes it was built from, its solution; or None
    results,            \* the solver's results mapping, or None
    reads,              \* keys and node views the script has read from results
    heap,               \* pandas objects of the electricity-bus views: id -> table
    electricity_bus,    \* the view of line 120: its two table ids, or None
    my_results,         \* the object id my_results is bound to, or "None"
    cdict,              \* the colour mapping, or None
    electricity_seq,    \* the object id of the plotted table, or "None"
    plot,               \* what electricity_seq.plot drew, or None
    files,              \* files written
    stdout,             \* what was pretty-printed, in order
    trace               \* history: the steps started so far, in order

vars == <<STORAGE, PV, pc, err, data, env, energysystem, optimization_model,
          results, reads, heap, electricity_bus, my_results, cdict,
          electricity_seq, plot, files, stdout, trace>>

\* ------------------------------------------------------- float arithmetic
\* The sums are pandas float64 Series: "/" and "-" are IEEE-754 operations,
\* which raise nothing; x/0 is an infinity and 0/0 is NaN.  Finite values
\* are kept as exact fractions in lowest terms.
RECURSIVE GCD(_, _)
GCD(a, b) == IF b = 0 THEN a ELSE GCD(b, a % b)

Abs(x) == IF x < 0 THEN -x ELSE x

Sign(x) == IF x < 0 THEN -1 ELSE IF x = 0 THEN 0 ELSE 1

NaN == [kind |-> "nan", num |-> 0, den |-> 1]

Inf(s) == [kind |-> "inf", num |-> s, den |-> 1]

\* n/d with d > 0, in lowest terms
Fin(n, d) ==
    LET g == GCD(Abs(n), d)
    IN  [kind |-> "fin", num |-> n \div g, den |-> d \div g]

FloatDiv(a, b) ==
    IF a.kind = "nan" \/ b.kind = "nan" THEN NaN
    ELSE IF a.kind = "inf" /\ b.kind = "inf" THEN NaN
    ELSE IF a.kind = "inf"
         THEN Inf(IF b.num < 0 THEN -a.num ELSE a.num)
    ELSE IF b.kind = "inf" THEN Fin(0, 1)
    ELSE IF b.num = 0
         THEN IF a.num = 0 THEN NaN ELSE Inf(Sign(a.num))
    ELSE Fin(a.num * b.den * Sign(b.num), a.den * Abs(b.num))

FloatSub(a, b) ==
    IF a.kind = "nan" \/ b.kind = "nan" THEN NaN
    ELSE IF a.kind = "inf" /\ b.kind = "inf"
         THEN IF a.num = b.num THEN NaN ELSE a
    ELSE IF a.kind = "inf" THEN a
    ELSE IF b.kind = "inf" THEN Inf(-b.num)
    ELSE Fin(a.num * b.den - b.num * a.den, a.den * b.den)

\* -------------------------------------------------------------- topology
\* The flows each node is constructed with, by label: <<from, to>>.
Flows(label) ==
    CASE label = "excess_el" -> {<<"electricity", "excess_el">>}
      [] label = "pv"        -> {<<"pv", "electricity">>}
      [] label = "rdiesel"   -> {<<"rdiesel", "diesel">>}
      [] label = "genset"    -> {<<"diesel", "genset">>, <<"genset", "electricity">>}
      [] label = "storage"   -> {<<"electricity", "storage">>, <<"storage", "electricity">>}
      [] label = "demand_el" -> {<<"electricity", "demand_el">>}
      [] OTHER               -> {}

\* The flows constructed with investment=solph.Investment(...).
InvestFlows(label) ==
    CASE label = "pv"     -> {<<"pv", "electricity">>}
      [] label = "genset" -> {<<"genset", "electricity">>}
      [] OTHER            -> {}

\* The nodes constructed with investment=solph.Investment(...): their own
\* results live under the key (node, None).
InvestNodes(label) == IF label = "storage" THEN {<<"storage", "None">>} ELSE {}

Range(s) == {s[i] : i \in 1..Len(s)}

\* Keys of the results mapping for a model built from these nodes.
ResultKeys(nodes) ==
    UNION {Flows(n) \cup InvestNodes(n) : n \in nodes}

\* Keys of the results mapping that carry an "invest" scalar.
InvestKeys(nodes) ==
    UNION {InvestFlows(n) \cup InvestNodes(n) : n \in nodes}

\* solph.views.node(results, label): the keys with the node at either end.
NodeKeys(keys, label) == {k \in keys : k[1] = label \/ k[2] = label}

\* ------------------------------------------------------- optional values
\* A name that is not bound yet holds None; a bound one holds Some(value).
None == {}

Some(x) == {x}

Val(s) == CHOOSE x \in s : TRUE

\* --------------------------------------------------------- control flow
\* Steps with the plot moved before the print of the metrics.
StepsPlotBeforePrint ==
    <<"load", "buses", "sources", "transformers", "storage", "demand",
      "render", "model", "solve", "results", "print_meta",
      "storage_invest", "pv_invest", "res_share", "cdict", "plot",
      "print_results">>

\* The statements of the script, top to bottom (lines 27 to 169).
Steps ==
    <<"load", "buses", "sources", "transformers", "storage", "demand",
      "render", "model", "solve", "results", "print_meta",
      "storage_invest", "pv_invest", "res_share", "print_results",
      "cdict", "plot">>

Index(seq, x) == CHOOSE i \in 1..Len(seq) : seq[i] = x

\* The statement after step; the script ends after the last one.
Succ(step) ==
    LET i == Index(Steps, step)
    IN  IF i = Len(Steps) THEN "done" ELSE Steps[i + 1]

\* OnFailure with a retry: the failed step is run again.
OnFailureRetry(step) == step

\* No statement of the script is inside a try or a loop: an exception
\* raised at any step ends the run.
OnFailure(step) == "failed"

\* step runs to its end.
Go(step) ==
    /\ pc' = Succ(step)
    /\ err' = err
    /\ trace' = Append(trace, step)

\* step raises e.
Raise(step, e) ==
    /\ pc' = OnFailure(step)
    /\ err' = e
    /\ trace' = Append(trace, step)

\* ----------------------------------------------------------------- Init
\* The flags are constants of the script (lines 32-33, committed as True and
\* False); a run is checked for each of their four combinations.
Init ==
    /\ STORAGE \in BOOLEAN
    /\ PV \in BOOLEAN
    /\ pc = "load"
    /\ err = "none"
    /\ data = None
    /\ env = << >>
    /\ energysystem = << >>
    /\ optimization_model = None
    /\ results = None
    /\ reads = {}
    /\ heap = << >>
    /\ electricity_bus = None
    /\ my_results = "None"
    /\ cdict = None
    /\ electricity_seq = "None"
    /\ plot = None
    /\ files = {}
    /\ stdout = << >>
    /\ trace = << >>

\* ------------------------------------------------------------ input loader
\* line 27: pd.read_csv returns whatever columns the file holds.
LoadCsv ==
    /\ pc = "load"
    /\ \E cols \in SUBSET {"pv", "demand_el"}, d \in 0..MaxDemand :
          data' = Some([cols |-> cols, demand_sum |-> d])
    /\ Go("load")
    /\ UNCHANGED <<STORAGE, PV, env, energysystem, optimization_model, results,
                   reads, heap, electricity_bus, my_results, cdict,
                   electricity_seq, plot, files, stdout>>

\* line 27: the file is missing or unreadable.
LoadCsvFail ==
    /\ pc = "load"
    /\ Raise("load", "FileNotFoundError")
    /\ UNCHANGED <<STORAGE, PV, data, env, energysystem, optimization_model,
                   results, reads, heap, electricity_bus, my_results, cdict,
                   electricity_seq, plot, files, stdout>>

\* -------------------------------------------------------- topology builder
\* lines 36-42: the two buses are constructed and added, then the excess
\* sink is constructed.
AddBuses ==
    /\ pc = "buses"
    /\ env' = env @@ ("bus_el" :> "electricity") @@ ("bus_diesel" :> "diesel")
                  @@ ("excess" :> "excess_el")
    /\ energysystem' = energysystem \o <<"electricity", "diesel">>
    /\ Go("buses")
    /\ UNCHANGED <<STORAGE, PV, data, optimization_model, results, reads, heap,
                   electricity_bus, my_results, cdict, electricity_seq, plot,
                   files, stdout>>

\* PvBranch testing the other flag.
PvBranchWrongFlag == STORAGE = TRUE

\* line 65
PvBranch == PV = TRUE

\* lines 65-71: the pv source (read from data['pv']) is constructed and
\* added when PV is set; the diesel source is constructed.
AddSources ==
    /\ pc = "sources"
    /\ IF PvBranch /\ "pv" \notin Val(data).cols
       THEN /\ Raise("sources", "KeyError")
            /\ UNCHANGED <<env, energysystem>>
       ELSE /\ env' = IF PvBranch
                      THEN env @@ ("pv" :> "pv") @@ ("diesel_resource" :> "rdiesel")
                      ELSE env @@ ("diesel_resource" :> "rdiesel")
            /\ energysystem' = IF PvBranch
                               THEN Append(energysystem, "pv")
                               ELSE energysystem
            /\ Go("sources")
    /\ UNCHANGED <<STORAGE, PV, data, optimization_model, results, reads, heap,
                   electricity_bus, my_results, cdict, electricity_seq, plot,
                   files, stdout>>

\* lines 74-77: the genset is constructed.
AddTransformers ==
    /\ pc = "transformers"
    /\ env' = env @@ ("genset" :> "genset")
    /\ Go("transformers")
    /\ UNCHANGED <<STORAGE, PV, data, energysystem, optimization_model, results,
                   reads, heap, electricity_bus, my_results, cdict,
                   electricity_seq, plot, files, stdout>>

\* line 80
StorageBranch == STORAGE = TRUE

\* lines 80-91: the storage is constructed and added when STORAGE is set.
AddStorage ==
    /\ pc = "storage"
    /\ env' = IF StorageBranch THEN env @@ ("storage" :> "storage") ELSE env
    /\ energysystem' = IF StorageBranch
                       THEN Append(energysystem, "storage")
                       ELSE energysystem
    /\ Go("storage")
    /\ UNCHANGED <<STORAGE, PV, data, optimization_model, results, reads, heap,
                   electricity_bus, my_results, cdict, electricity_seq, plot,
                   files, stdout>>

\* AddedLast without the excess sink.
AddedLastNoExcess == <<"diesel_resource", "genset", "demand">>

\* line 99: the names passed to the last energysystem.add.
AddedLast == <<"diesel_resource", "genset", "demand", "excess">>

\* lines 94-99: the demand sink (read from data['demand_el']) is
\* constructed; the remaining components are added.
AddDemand ==
    /\ pc = "demand"
    /\ IF "demand_el" \notin Val(data).cols
       THEN /\ Raise("demand", "KeyError")
            /\ UNCHANGED <<env, energysystem>>
       ELSE LET e == env @@ ("demand" :> "demand_el")
            IN  /\ env' = e
                /\ energysystem' =
                      energysystem \o [i \in 1..Len(AddedLast) |-> e[AddedLast[i]]]
                /\ Go("demand")
    /\ UNCHANGED <<STORAGE, PV, data, optimization_model, results, reads, heap,
                   electricity_bus, my_results, cdict, electricity_seq, plot,
                   files, stdout>>

\* lines 101-102: the graph of the energy system is rendered to
\* energy_system.png and opened.
RenderGraph ==
    /\ pc = "render"
    /\ files' = files \cup {"energy_system.png"}
    /\ Go("render")
    /\ UNCHANGED <<STORAGE, PV, data, env, energysystem, optimization_model,
                   results, reads, heap, electricity_bus, my_results, cdict,
                   electricity_seq, plot, stdout>>

\* lines 101-102: the renderer raises (no graphviz executable, no viewer).
RenderGraphFail ==
    /\ pc = "render"
    /\ Raise("render", "RenderError")
    /\ UNCHANGED <<STORAGE, PV, data, env, energysystem, optimization_model,
                   results, reads, heap, electricity_bus, my_results, cdict,
                   electricity_seq, plot, files, stdout>>

\* ------------------------------------------------------------ model solver
\* line 107: the optimisation model is built from the energy system as it is.
CreateModel ==
    /\ pc = "model"
    /\ optimization_model' = Some([nodes |-> energysystem, solution |-> None])
    /\ Go("model")
    /\ UNCHANGED <<STORAGE, PV, data, env, energysystem, results, reads, heap,
                   electricity_bus, my_results, cdict, electricity_seq, plot,
                   files, stdout>>

\* What a solve of a model built from nodes may return: the demand flow is
\* fixed to nominal_value * data['demand_el'] (line 95); the genset flow and
\* the investments are the solver's.
Solutions(nodes) ==
    LET keys == ResultKeys(Range(nodes))
    IN  {[keys |-> keys,
          sum  |-> (<<"genset", "electricity">> :> g)
                   @@ (<<"electricity", "demand_el">> :>
                          nominal_value * Val(data).demand_sum),
          invest |-> inv] :
            g \in 0..MaxFlow,
            inv \in [InvestKeys(Range(nodes)) -> 0..MaxInvest]}

\* line 110: the solver returns a solution.
Solve ==
    /\ pc = "solve"
    /\ \E s \in Solutions(Val(optimization_model).nodes) :
          optimization_model' =
              Some([Val(optimization_model) EXCEPT !.solution = Some(s)])
    /\ Go("solve")
    /\ UNCHANGED <<STORAGE, PV, data, env, energysystem, results, reads, heap,
                   electricity_bus, my_results, cdict, electricity_seq, plot,
                   files, stdout>>

\* line 110: solver binary missing, infeasible model, solver crash.
SolveFail ==
    /\ pc = "solve"
    /\ Raise("solve", "SolverError")
    /\ UNCHANGED <<STORAGE, PV, data, env, energysystem, optimization_model,
                   results, reads, heap, electricity_bus, my_results, cdict,
                   electricity_seq, plot, files, stdout>>

\* -------------------------------------------------------- result extractor
\* table with table[k] set to v, k added when it is new (pandas setitem)
Store(table, k, v) ==
    [x \in DOMAIN table \cup {k} |-> IF x = k THEN v ELSE table[x]]

\* views.node(results, label)["scalars"]: one "invest" entry per key of the
\* node that carries an investment.
ScalarsView(res, label) ==
    LET ks == NodeKeys(DOMAIN res.invest, label)
    IN  [k \in {<<e[1], e[2], "invest">> : e \in ks} |->
            Fin(res.invest[<<k[1], k[2]>>], 1)]

\* views.node(results, label)["sequences"]: one "flow" column per flow of
\* the node.
SequencesView(res, label) ==
    {<<e[1], e[2], "flow">> : e \in NodeKeys(res.keys, label) \ {<<label, "None">>}}

\* lines 118-120: the results are taken from the solved model and the view
\* of the electricity bus is built: two new tables.
ProcessResults ==
    /\ pc = "results"
    /\ LET res == Val(Val(optimization_model).solution)
       IN  /\ results' = Some(res)
           /\ heap' = heap @@ ("bus_scalars" :> ScalarsView(res, "electricity"))
                           @@ ("bus_sequences" :> SequencesView(res, "electricity"))
    /\ electricity_bus' =
          Some([scalars |-> "bus_scalars", sequences |-> "bus_sequences"])
    /\ reads' = reads \cup {<<"view", "electricity">>}
    /\ Go("results")
    /\ UNCHANGED <<STORAGE, PV, data, env, energysystem, optimization_model,
                   my_results, cdict, electricity_seq, plot, files, stdout>>

\* lines 122-123
PrintMeta ==
    /\ pc = "print_meta"
    /\ stdout' = Append(stdout, "meta_results")
    /\ Go("print_meta")
    /\ UNCHANGED <<STORAGE, PV, data, env, energysystem, optimization_model,
                   results, reads, heap, electricity_bus, my_results, cdict,
                   electricity_seq, plot, files>>

\* ExtractStorageBranch testing the other flag.
ExtractStorageBranchWrongFlag == PV = TRUE

\* line 128
ExtractStorageBranch == STORAGE = TRUE

\* ExtractPvBranch testing the other flag.
ExtractPvBranchWrongFlag == STORAGE = TRUE

\* line 135
ExtractPvBranch == PV = TRUE

\* The keys the metrics are stored under (lines 130, 136, 139).
StorageInvestKey == <<"storage_invest_GWh">>

PvInvestKey == <<"pv_invest_MW">>

\* ResShareKey clashing with an entry the scalars table already holds.
ResShareKeyClash == <<"genset", "electricity", "invest">>

ResShareKey == <<"res_share">>

\* results[(a, b)]["scalars"]["invest"] / scale stored under key in the
\* table target, a and b being Python names (b may be the literal None) and
\* rd what was read before: NameError when a name is unbound, KeyError when
\* the results hold no such key.
ExtractInvest(step, a, b, key, scale, target, rd) ==
    IF a \notin DOMAIN env \/ (b # "None" /\ b \notin DOMAIN env)
    THEN /\ Raise(step, "NameError")
         /\ reads' = rd
         /\ UNCHANGED heap
    ELSE LET k == <<env[a], IF b = "None" THEN "None" ELSE env[b]>>
         IN  /\ reads' = rd \cup {k}
             /\ IF k \notin Val(results).keys \/ k \notin DOMAIN Val(results).invest
                THEN /\ Raise(step, "KeyError")
                     /\ UNCHANGED heap
                ELSE /\ heap' =
                          [heap EXCEPT ![target] =
                              Store(@, key,
                                    FloatDiv(Fin(Val(results).invest[k], 1),
                                             Fin(scale, 1)))]
                     /\ Go(step)

\* lines 125-132: my_results is bound to the scalars table of the view (the
\* same object, not a copy); with STORAGE set the storage view is read and
\* the storage investment stored.
ExtractStorage ==
    /\ pc = "storage_invest"
    /\ my_results' = Val(electricity_bus).scalars
    /\ IF ExtractStorageBranch
       THEN ExtractInvest("storage_invest", "storage", "None", StorageInvestKey,
                          storage_scale, my_results',
                          reads \cup {<<"view", "storage">>})
       ELSE /\ Go("storage_invest")
            /\ UNCHANGED <<heap, reads>>
    /\ UNCHANGED <<STORAGE, PV, data, env, energysystem, optimization_model,
                   results, electricity_bus, cdict, electricity_seq, plot,
                   files, stdout>>

\* lines 135-136: with PV set the pv investment is stored.
ExtractPv ==
    /\ pc = "pv_invest"
    /\ IF ExtractPvBranch
       THEN ExtractInvest("pv_invest", "pv", "bus_el", PvInvestKey, pv_scale,
                          my_results, reads)
       ELSE /\ Go("pv_invest")
            /\ UNCHANGED <<heap, reads>>
    /\ UNCHANGED <<STORAGE, PV, data, env, energysystem, optimization_model,
                   results, electricity_bus, my_results, cdict,
                   electricity_seq, plot, files, stdout>>

\* ResShare without the complement: the genset share.
ResShareNoComplement(genset_sum, demand_sum) ==
    FloatDiv(Fin(genset_sum, 1), Fin(demand_sum, 1))

\* ResShare with a guard that turns a zero demand sum into a share of zero.
ResShareZeroGuard(genset_sum, demand_sum) ==
    IF demand_sum = 0
    THEN Fin(0, 1)
    ELSE FloatSub(Fin(1, 1), FloatDiv(Fin(genset_sum, 1), Fin(demand_sum, 1)))

\* lines 140-142: 1 - genset sum / demand sum, on float64 Series.
ResShare(genset_sum, demand_sum) ==
    FloatSub(Fin(1, 1), FloatDiv(Fin(genset_sum, 1), Fin(demand_sum, 1)))

\* The names whose sequences line 141 and line 142 read.
ResShareNames == <<"genset", "bus_el", "bus_el", "demand">>

\* lines 139-143: the renewable share is stored.
ExtractResShare ==
    /\ pc = "res_share"
    /\ IF \E i \in 1..Len(ResShareNames) : ResShareNames[i] \notin DOMAIN env
       THEN /\ Raise("res_share", "NameError")
            /\ UNCHANGED <<heap, reads>>
       ELSE LET g == <<env[ResShareNames[1]], env[ResShareNames[2]]>>
                d == <<env[ResShareNames[3]], env[ResShareNames[4]]>>
                res == Val(results)
            IN  IF g \notin res.keys
                THEN /\ Raise("res_share", "KeyError")
                     /\ reads' = reads \cup {g}
                     /\ UNCHANGED heap
                ELSE IF d \notin res.keys
                THEN /\ Raise("res_share", "KeyError")
                     /\ reads' = reads \cup {g, d}
                     /\ UNCHANGED heap
                ELSE /\ reads' = reads \cup {g, d}
                     /\ heap' = [heap EXCEPT ![my_results] =
                                    Store(@, ResShareKey,
                                          ResShare(res.sum[g], res.sum[d]))]
                     /\ Go("res_share")
    /\ UNCHANGED <<STORAGE, PV, data, env, energysystem, optimization_model,
                   results, electricity_bus, my_results, cdict,
                   electricity_seq, plot, files, stdout>>

\* ---------------------------------------------------------------- reporter
\* line 145
PrintResults ==
    /\ pc = "print_results"
    /\ stdout' = Append(stdout, "my_results")
    /\ Go("print_results")
    /\ UNCHANGED <<STORAGE, PV, data, env, energysystem, optimization_model,
                   results, reads, heap, electricity_bus, my_results, cdict,
                   electricity_seq, plot, files>>

\* line 154
CdictPvBranch == PV = TRUE

\* line 157
CdictStorageBranch == STORAGE = TRUE

\* lines 148-152: the literal the colour mapping starts from.
CdictBase ==
    (<<"electricity", "demand", "flow">> :> "#ce4aff")
    @@ (<<"electricity", "excess", "flow">> :> "#5b5bae")
    @@ (<<"genset", "electricity", "flow">> :> "#636f6b")

\* lines 148-159: the colour mapping is built.
BuildCdict ==
    /\ pc = "cdict"
    /\ LET c1 == IF CdictPvBranch
                 THEN Store(CdictBase, <<"pv", "electricity", "flow">>, "#ffde32")
                 ELSE CdictBase
           c2 == IF CdictStorageBranch
                 THEN Store(Store(c1, <<"electricity", "storage", "flow">>, "#42c77a"),
                            <<"storage", "electricity", "flow">>, "#42c77a")
                 ELSE c1
       IN  cdict' = Some(c2)
    /\ Go("cdict")
    /\ UNCHANGED <<STORAGE, PV, data, env, energysystem, optimization_model,
                   results, reads, heap, electricity_bus, my_results,
                   electricity_seq, plot, files, stdout>>

\* line 163: the colours electricity_seq.plot is called with; the call
\* passes kind, drawstyle and figsize only.
PlotColors == None

\* lines 161-169: a new view of the electricity bus is built, its sequences
\* are plotted and shown.
Plot ==
    /\ pc = "plot"
    /\ heap' = heap @@ ("plot_sequences" :> SequencesView(Val(results), "electricity"))
    /\ electricity_seq' = "plot_sequences"
    /\ reads' = reads \cup {<<"view", "electricity">>}
    /\ plot' = Some([columns |-> heap'[electricity_seq'], colors |-> PlotColors])
    /\ Go("plot")
    /\ UNCHANGED <<STORAGE, PV, data, env, energysystem, optimization_model,
                   results, electricity_bus, my_results, cdict, files, stdout>>

\* lines 163-169: the plotting backend raises (no display).
PlotFail ==
    /\ pc = "plot"
    /\ heap' = heap @@ ("plot_sequences" :> SequencesView(Val(results), "electricity"))
    /\ electricity_seq' = "plot_sequences"
    /\ reads' = reads \cup {<<"view", "electricity">>}
    /\ Raise("plot", "RenderError")
    /\ UNCHANGED <<STORAGE, PV, data, env, energysystem, optimization_model,
                   results, electricity_bus, my_results, cdict, plot, files,
                   stdout>>

\* -------------------------------------------------------------------- Next
Next ==
    \/ LoadCsv
    \/ LoadCsvFail
    \/ AddBuses
    \/ AddSources
    \/ AddTransformers
    \/ AddStorage
    \/ AddDemand
    \/ RenderGraph
    \/ RenderGraphFail
    \/ CreateModel
    \/ Solve
    \/ SolveFail
    \/ ProcessResults
    \/ PrintMeta
    \/ ExtractStorage
    \/ ExtractPv
    \/ ExtractResShare
    \/ PrintResults
    \/ BuildCdict
    \/ Plot
    \/ PlotFail

Spec == Init /\ [][Next]_vars

\* ============================================================== properties
Last(seq) == seq[Len(seq)]

\* The run ended with an exception raised by step.
FailedAt(step) == pc = "failed" /\ trace # << >> /\ Last(trace) = step

Count(x, seq) == Cardinality({i \in 1..Len(seq) : seq[i] = x})

\* The metrics mapping, once my_results is bound.
Metrics == heap[my_results]

Mentions(k, label) == \E i \in 1..Len(k) : k[i] = label

\* C1: with the PV flag false, for either storage flag, the topology handed
\* to the solver holds no pv node and no pv->electricity flow, the metrics
\* mapping holds no pv investment entry and the colour mapping no pv entry.
C1_NoPvWhenDisabled ==
    ~PV =>
        /\ "pv" \notin Range(energysystem)
        /\ optimization_model # None =>
              /\ "pv" \notin Range(Val(optimization_model).nodes)
              /\ <<"pv", "electricity">> \notin
                    ResultKeys(Range(Val(optimization_model).nodes))
        /\ results # None => \A k \in Val(results).keys : ~Mentions(k, "pv")
        /\ my_results # "None" =>
              \A k \in DOMAIN Metrics :
                  k \notin {<<"pv_invest_MW">>, <<"pv_invest">>} /\ ~Mentions(k, "pv")
        /\ cdict # None => \A k \in DOMAIN Val(cdict) : ~Mentions(k, "pv")

\* A run with PV false that went through every step.
C1_Witness == ~PV /\ pc = "done" /\ cdict # None /\ my_results # "None"

\* C2: with the storage flag false, for either PV flag, no storage node is
\* added to the energy system, the results mapping holds no storage key and
\* is never read at one, the metrics mapping holds no storage investment
\* key and the colour mapping no storage entry.
C2_NoStorageWhenDisabled ==
    ~STORAGE =>
        /\ "storage" \notin Range(energysystem)
        /\ optimization_model # None =>
              "storage" \notin Range(Val(optimization_model).nodes)
        /\ results # None => \A k \in Val(results).keys : ~Mentions(k, "storage")
        /\ \A r \in reads : ~Mentions(r, "storage")
        /\ my_results # "None" =>
              \A k \in DOMAIN Metrics :
                  k \notin {<<"storage_invest_GWh">>, <<"storage_invest">>}
                  /\ ~Mentions(k, "storage")
        /\ cdict # None => \A k \in DOMAIN Val(cdict) : ~Mentions(k, "storage")

\* A run with STORAGE false that went through every step.
C2_Witness == ~STORAGE /\ pc = "done" /\ cdict # None /\ my_results # "None"

\* C3: for every flag combination, when the optimisation model is
\* constructed the energy system holds the two buses, the diesel source, the
\* genset, the demand sink and the excess sink, and every node that was
\* constructed (pv and storage exactly when enabled) was added exactly once.
C3_CoreNodesAddedOnce ==
    optimization_model # None =>
        LET nodes == Val(optimization_model).nodes
        IN  /\ {"electricity", "diesel", "rdiesel", "genset", "demand_el",
                "excess_el"} \subseteq Range(nodes)
            /\ \A name \in DOMAIN env : Count(env[name], nodes) = 1
            /\ \A i, j \in 1..Len(nodes) : nodes[i] = nodes[j] => i = j
            /\ PV <=> "pv" \in Range(nodes)
            /\ STORAGE <=> "storage" \in Range(nodes)

\* A model constructed with both optional components.
C3_Witness ==
    /\ optimization_model # None
    /\ PV /\ STORAGE
    /\ Len(Val(optimization_model).nodes) = 8

\* Each step of the trace ran at most once, and the stages rank(step) of
\* the trace never go back.
RunsInOrder(rank) ==
    /\ \A i, j \in 1..Len(trace) : trace[i] = trace[j] => i = j
    /\ \A i, j \in 1..Len(trace) : i < j => rank[trace[i]] <= rank[trace[j]]

\* An exception ends the run: nothing executes after it.
FailureEndsRun == pc = "failed" => ~ENABLED Next

\* A solver failure leaves nothing printed and no plot drawn.
SolverFailureSilent == err = "SolverError" => stdout = << >> /\ plot = None

\* The five stages as the claim orders them: 1 CSV load, 2 topology build,
\* 3 solve, 4 result extraction, 5 report.
StageOfClaim ==
    [s \in Range(Steps) |->
        CASE s = "load" -> 1
          [] s \in {"buses", "sources", "transformers", "storage", "demand",
                    "render"} -> 2
          [] s \in {"model", "solve"} -> 3
          [] s \in {"results", "storage_invest", "pv_invest", "res_share"} -> 4
          [] OTHER -> 5]

\* The stages as the script runs them: the meta-results are printed between
\* the retrieval of the results and the extraction of the metrics.
StageOfScript ==
    [s \in Range(Steps) |->
        CASE s = "load" -> 1
          [] s \in {"buses", "sources", "transformers", "storage", "demand",
                    "render"} -> 2
          [] s \in {"model", "solve"} -> 3
          [] s = "results" -> 4
          [] s = "print_meta" -> 5
          [] s \in {"storage_invest", "pv_invest", "res_share"} -> 6
          [] s = "print_results" -> 7
          [] OTHER -> 8]

\* C4 (as claimed): every stage runs at most once, in the order CSV load,
\* topology build, solve, result extraction, report (print then plot); a
\* failure ends the run, and a solver failure leaves nothing printed and no
\* plot drawn.
C4_Original ==
    /\ RunsInOrder(StageOfClaim)
    /\ Count("print_results", trace) = 1 /\ Count("plot", trace) = 1 =>
          Index(trace, "print_results") < Index(trace, "plot")
    /\ FailureEndsRun
    /\ SolverFailureSilent

\* C4 (amended): every step runs at most once, in the order CSV load,
\* topology build (ending with the rendering of the graph image), solve,
\* retrieval of the results, print of the meta-results, extraction of the
\* metrics, print of the metrics, plot; a failure ends the run, and a solver
\* failure leaves nothing printed and no time-series plot drawn.
C4_FixedOrderNoRetry ==
    /\ RunsInOrder(StageOfScript)
    /\ Len(trace) <= Len(Steps)
    /\ FailureEndsRun
    /\ SolverFailureSilent
    /\ pc = "done" => trace = Steps

\* The solver failed: the graph image is written, nothing else is reported.
C4_Witness ==
    /\ FailedAt("solve")
    /\ err = "SolverError"
    /\ files = {"energy_system.png"}

\* Both prints have happened.
BothPrinted == stdout = <<"meta_results", "my_results">>

\* C5 (as claimed): whenever a rendering step of the script fails, the
\* meta-results and the metrics have already been printed.
C5_Original == err = "RenderError" => BothPrinted

\* C5 (amended): when the final plotting step (lines 161-169) fails, the
\* meta-results and the metrics have already been printed; when the
\* rendering of the topology graph (lines 101-102) fails, the run ends
\* before the solve with nothing printed.
C5_PlotFailureAfterPrints ==
    /\ FailedAt("plot") => BothPrinted
    /\ FailedAt("render") =>
          stdout = << >> /\ optimization_model = None /\ results = None
    /\ err = "RenderError" => FailedAt("plot") \/ FailedAt("render")

\* The plotting backend failed at the end of a run.
C5_Witness == FailedAt("plot") /\ err = "RenderError" /\ cdict # None

\* The sums line 141 and line 142 read.
GensetSum == Val(results).sum[<<"genset", "electricity">>]

DemandSum == Val(results).sum[<<"electricity", "demand_el">>]

AfterResShare == pc \in {"print_results", "cdict", "plot", "done"} \/ FailedAt("plot")

\* C6: for every flag combination res_share is in the metrics mapping once
\* the extraction ran, it is 1 - genset sum / demand sum, and it is exactly
\* 1 when the genset sum is 0 and the demand sum is positive.
C6_ResShare ==
    /\ ~FailedAt("res_share")
    /\ AfterResShare =>
          /\ <<"res_share">> \in DOMAIN Metrics
          /\ LET v == Metrics[<<"res_share">>]
             IN  /\ DemandSum > 0 =>
                       /\ v.kind = "fin"
                       /\ v.den > 0
                       /\ v.num * DemandSum = (DemandSum - GensetSum) * v.den
                 /\ GensetSum = 0 /\ DemandSum > 0 =>
                       v = [kind |-> "fin", num |-> 1, den |-> 1]

\* A fully renewable run: no genset flow, positive demand, share printed.
C6_Witness ==
    /\ pc = "cdict"
    /\ GensetSum = 0 /\ DemandSum > 0
    /\ Metrics[<<"res_share">>] = [kind |-> "fin", num |-> 1, den |-> 1]

\* C7 (as claimed): when the demand sum is zero the renewable-share
\* computation raises: no res_share value is stored and the metrics are not
\* printed.
C7_Original ==
    results # None /\ DemandSum = 0 =>
        /\ ~AfterResShare
        /\ my_results # "None" => <<"res_share">> \notin DOMAIN Metrics
        /\ \A i \in 1..Len(stdout) : stdout[i] # "my_results"

\* C7 (amended): when the demand sum is zero the renewable-share computation
\* raises nothing: res_share is stored as a non-finite value (NaN when the
\* genset sum is zero too, an infinity otherwise), never as zero or any
\* other number, and the metrics are printed.
C7_ZeroDemandNonFinite ==
    results # None /\ DemandSum = 0 =>
        /\ ~FailedAt("res_share")
        /\ AfterResShare =>
              /\ <<"res_share">> \in DOMAIN Metrics
              /\ Metrics[<<"res_share">>].kind \in {"nan", "inf"}
              /\ Metrics[<<"res_share">>].kind = "nan" <=> GensetSum = 0
        /\ pc \in {"cdict", "plot", "done"} =>
              \E i \in 1..Len(stdout) : stdout[i] = "my_results"

\* Zero demand, and the metrics were printed with a NaN share.
C7_Witness ==
    /\ pc = "cdict"
    /\ DemandSum = 0
    /\ Metrics[<<"res_share">>] = NaN
    /\ Last(stdout) = "my_results"

\* C8: every column of the plotted electricity-bus sequences has an entry
\* in the colour mapping under its own node labels, and the plot is drawn
\* with that mapping.
C8_ColourPerEdge ==
    plot # None =>
        /\ cdict # None
        /\ \A col \in Val(plot).columns : col \in DOMAIN Val(cdict)
        /\ Val(plot).colors = cdict

\* Every entry of table old is in table new, unchanged.
Keeps(old, new) == \A k \in DOMAIN old : k \in DOMAIN new /\ new[k] = old[k]

\* After the model is constructed the topology is not modified.
TopologyFrozen ==
    optimization_model # None =>
        /\ energysystem' = energysystem
        /\ env' = env
        /\ Val(optimization_model').nodes = Val(optimization_model).nodes

\* The results mapping, once retrieved, is not modified.
ResultsFrozen == results # None => results' = results

\* C9 (as claimed): after the model is constructed no topology entity is
\* modified, and the scalars and sequences tables of the electricity-bus
\* view are unchanged by the extraction.
C9_Original ==
    [][/\ TopologyFrozen
       /\ ResultsFrozen
       /\ electricity_bus # None =>
             /\ heap'[Val(electricity_bus).sequences] = heap[Val(electricity_bus).sequences]
             /\ heap'[Val(electricity_bus).scalars] = heap[Val(electricity_bus).scalars]
      ]_vars

\* C9 (amended): after the model is constructed no topology entity is
\* modified, and the results mapping and the sequences table of the
\* electricity-bus view are unchanged by the extraction; the scalars table
\* of the view is the metrics mapping itself: the extraction adds the keys
\* storage_invest_GWh, pv_invest_MW and res_share to it and leaves the
\* entries it had unchanged.
C9_FrameOfExtraction ==
    [][/\ TopologyFrozen
       /\ ResultsFrozen
       /\ electricity_bus # None =>
             /\ heap'[Val(electricity_bus).sequences] = heap[Val(electricity_bus).sequences]
             /\ Keeps(heap[Val(electricity_bus).scalars],
                      heap'[Val(electricity_bus).scalars])
             /\ DOMAIN heap'[Val(electricity_bus).scalars]
                    \ DOMAIN heap[Val(electricity_bus).scalars]
                  \subseteq {<<"storage_invest_GWh">>, <<"pv_invest_MW">>,
                             <<"res_share">>}
             /\ my_results' \in {"None", Val(electricity_bus).scalars}
      ]_vars

\* The extraction ran with both flags set: the scalars table of the view
\* holds the three metrics.
C9_Witness ==
    /\ pc = "done"
    /\ {<<"storage_invest_GWh">>, <<"pv_invest_MW">>, <<"res_share">>}
          \subseteq DOMAIN heap[Val(electricity_bus).scalars]

\* C10: for every flag combination, every node name and results key read
\* during the extraction refers to a node constructed and added under the
\* same flags: the extraction raises neither NameError nor KeyError.
C10_NoOmittedComponentRead ==
    /\ \A s \in {"storage_invest", "pv_invest", "res_share"} : ~FailedAt(s)
    /\ err # "NameError"
    /\ \A r \in reads :
          IF r[1] = "view"
          THEN r[2] \in Range(energysystem)
          ELSE /\ results # None
               /\ r \in Val(results).keys
               /\ r[1] \in Range(energysystem)
               /\ r[2] \in Range(energysystem) \cup {"None"}
               /\ \E name \in DOMAIN env : env[name] = r[1]

\* The extraction ran with both flags set: all four keys were read.
C10_Witness ==
    /\ pc = "print_results"
    /\ {<<"storage", "None">>, <<"pv", "electricity">>,
        <<"genset", "electricity">>, <<"electricity", "demand_el">>}
          \subseteq reads
====
